---- MODULE Spec2Model ----
(***************************************************************************)
(* DOCXHandler (textxtract/handlers/docx.py): extract, extract_async and   *)
(* _clean_text.  A text is a sequence of one-character strings.  A call of *)
(* extract is a frame (text_parts, processed_text) that moves through the  *)
(* steps of the method body in source order.                               *)
(***************************************************************************)
EXTENDS Integers, Sequences, FiniteSets, TLC

\* ------------------------------------------------------------ bounds

\* Fragments (paragraphs, cell paragraphs, w:t runs) in one document.
MaxItems == 3

\* Calls made on the one handler instance in the concurrent specification.
NCalls == 2

\* ------------------------------------------------------- characters

\* The characters \s matches among those the model's texts use.
Whitespace == {" ", "\n"}

\* [.!?,:;] of _clean_text's third substitution.
Punct == {".", "!", "?", ",", ":", ";"}

\* [.!?] of the sentence-break substitution.
SentenceEnd == {".", "!", "?"}

\* [A-Z] of the sentence-break substitution.
Upper ==
    {"A", "B", "C", "D", "E", "F", "G", "H", "I", "J", "K", "L", "M",
     "N", "O", "P", "Q", "R", "S", "T", "U", "V", "W", "X", "Y", "Z"}

\* -------------------------------------------------- string operations

\* F(e), with e evaluated once before F is applied to its value.
Then(e, F(_)) == CHOOSE y \in {F(x) : x \in {e}} : TRUE

RECURSIVE LStrip(_)
LStrip(s) ==
    IF s = <<>> THEN <<>>
    ELSE IF Head(s) \in Whitespace THEN LStrip(Tail(s))
    ELSE s

RECURSIVE RStrip(_)
RStrip(s) ==
    IF s = <<>> THEN <<>>
    ELSE IF s[Len(s)] \in Whitespace THEN RStrip(SubSeq(s, 1, Len(s) - 1))
    ELSE s

\* str.strip()
Strip(s) == Then(LStrip(s), RStrip)

\* re.sub(r'\s+', ' ', text)
RECURSIVE SubWhitespace(_)
SubWhitespace(s) ==
    IF s = <<>> THEN <<>>
    ELSE IF Head(s) \in Whitespace THEN <<" ">> \o SubWhitespace(LStrip(s))
    ELSE <<Head(s)>> \o SubWhitespace(Tail(s))

RECURSIVE DropDots(_)
DropDots(s) ==
    IF s # <<>> /\ Head(s) = "." THEN DropDots(Tail(s)) ELSE s

\* re.sub(r'\.{2,}', ' ', text)
RECURSIVE SubDots(_)
SubDots(s) ==
    IF s = <<>> THEN <<>>
    ELSE IF Len(s) >= 2 /\ s[1] = "." /\ s[2] = "."
         THEN <<" ">> \o SubDots(DropDots(s))
    ELSE <<Head(s)>> \o SubDots(Tail(s))

\* re.sub(r'\s+([.!?,:;])', r'\1', text)
RECURSIVE SubPunct(_)
SubPunct(s) ==
    IF s = <<>> THEN <<>>
    ELSE IF Head(s) \in Whitespace
         THEN LET rest == LStrip(s)
                  run  == SubSeq(s, 1, Len(s) - Len(rest))
              IN  IF rest # <<>> /\ Head(rest) \in Punct
                  THEN <<Head(rest)>> \o SubPunct(Tail(rest))
                  ELSE run \o SubPunct(rest)
    ELSE <<Head(s)>> \o SubPunct(Tail(s))

\* DOCXHandler._clean_text
_clean_text(text) ==
    IF text = <<>> THEN <<>>
    ELSE Then(Then(Then(SubWhitespace(text), SubDots), SubPunct), Strip)

\* sep.join(parts)
RECURSIVE Join(_, _)
Join(parts, sep) ==
    IF parts = <<>> THEN <<>>
    ELSE IF Len(parts) = 1 THEN parts[1]
    ELSE parts[1] \o sep \o Join(Tail(parts), sep)

\* re.sub(r'([.!?])\s*([A-Z])', r'\1\n\2', result)
RECURSIVE SentenceBreak(_)
SentenceBreak(s) ==
    IF s = <<>> THEN <<>>
    ELSE IF Head(s) \in SentenceEnd
         THEN LET rest == LStrip(Tail(s))
              IN  IF rest # <<>> /\ Head(rest) \in Upper
                  THEN <<Head(s), "\n", Head(rest)>> \o SentenceBreak(Tail(rest))
                  ELSE <<Head(s)>> \o SentenceBreak(Tail(s))
    ELSE <<Head(s)>> \o SentenceBreak(Tail(s))

\* ------------------------------------------------------------ documents

(* A document is the sequence of its text fragments in the order extract  *)
(* visits them, and the place where reading it fails, if it does.  A      *)
(* fragment has the kind of the element holding it; a table-cell          *)
(* paragraph also says what it opens: a table, a row, a cell, or only a   *)
(* further paragraph of the current cell.                                 *)
Kinds == <<"paragraph", "cell", "header", "footer", "footnote", "endnote", "textbox">>

\* The position of a kind's loop in the body of extract.
Rank(kind) ==
    CASE kind = "paragraph" -> 1
      [] kind = "cell"      -> 2
      [] kind = "header"    -> 3
      [] kind = "footer"    -> 3
      [] kind = "footnote"  -> 4
      [] kind = "endnote"   -> 5
      [] kind = "textbox"   -> 6

Breaks(kind) == IF kind = "cell" THEN {"table", "row", "cell", "para"} ELSE {"none"}

ItemsOver(Texts) ==
    UNION {{[kind |-> Kinds[k], brk |-> b, text |-> t] : b \in Breaks(Kinds[k]), t \in Texts}
           : k \in 1..Len(Kinds)}

WellFormed(s) ==
    /\ \A i \in 1..(Len(s) - 1) : Rank(s[i].kind) <= Rank(s[i + 1].kind)
    /\ \A i \in 1..Len(s) :
          (s[i].kind = "cell" /\ (i = 1 \/ s[i - 1].kind # "cell")) => s[i].brk = "table"

RECURSIVE ItemSeqs(_, _)
ItemSeqs(Texts, n) ==
    IF n = 0 THEN {<<>>}
    ELSE LET shorter == ItemSeqs(Texts, n - 1)
         IN  shorter \cup
             {s \in {Append(t, it) : t \in {u \in shorter : Len(u) = n - 1},
                                     it \in ItemsOver(Texts)}
                : WellFormed(s)}

OfKind(items, kinds) == SelectSeq(items, LAMBDA it : it.kind \in kinds)

TextsOf(items) == [i \in 1..Len(items) |-> items[i].text]

\* doc.paragraphs: the raw text of each body paragraph
DocParagraphs(d) == TextsOf(OfKind(d.items, {"paragraph"}))

AddCellItem(tables, it) ==
    LET nt == Len(tables) IN
    IF it.brk = "table" \/ nt = 0 THEN Append(tables, << << <<it.text>> >> >>)
    ELSE LET rows == tables[nt]
             nr   == Len(rows)
         IN  IF it.brk = "row"
             THEN [tables EXCEPT ![nt] = Append(rows, << <<it.text>> >>)]
             ELSE IF it.brk = "cell"
             THEN [tables EXCEPT ![nt][nr] = Append(rows[nr], <<it.text>>)]
             ELSE [tables EXCEPT ![nt][nr][Len(rows[nr])] =
                       Append(rows[nr][Len(rows[nr])], it.text)]

RECURSIVE GroupCells(_)
GroupCells(items) ==
    IF items = <<>> THEN <<>>
    ELSE Then(GroupCells(SubSeq(items, 1, Len(items) - 1)),
              LAMBDA tables : AddCellItem(tables, items[Len(items)]))

\* doc.tables: table.rows, row.cells, cell.paragraphs
DocTables(d) == GroupCells(OfKind(d.items, {"cell"}))

AddSectionItem(secs, it) ==
    LET n == Len(secs) IN
    IF n = 0 \/ (it.kind = "header" /\ secs[n].footer # <<>>)
    THEN Append(secs, IF it.kind = "header"
                      THEN [header |-> <<it.text>>, footer |-> <<>>]
                      ELSE [header |-> <<>>, footer |-> <<it.text>>])
    ELSE IF it.kind = "header"
         THEN [secs EXCEPT ![n].header = Append(@, it.text)]
         ELSE [secs EXCEPT ![n].footer = Append(@, it.text)]

RECURSIVE GroupSections(_)
GroupSections(items) ==
    IF items = <<>> THEN <<>>
    ELSE Then(GroupSections(SubSeq(items, 1, Len(items) - 1)),
              LAMBDA secs : AddSectionItem(secs, items[Len(items)]))

\* doc.sections: section.header.paragraphs, section.footer.paragraphs
DocSections(d) == GroupSections(OfKind(d.items, {"header", "footer"}))

\* doc.footnotes, doc.endnotes: one paragraph per note
DocFootnotes(d) == [i \in 1..Len(OfKind(d.items, {"footnote"})) |->
                        <<OfKind(d.items, {"footnote"})[i].text>>]

DocEndnotes(d) == [i \in 1..Len(OfKind(d.items, {"endnote"})) |->
                       <<OfKind(d.items, {"endnote"})[i].text>>]

\* the txbxContent elements of doc.element.body, one w:t run in each
DocTextBoxes(d) == [i \in 1..Len(OfKind(d.items, {"textbox"})) |->
                        <<OfKind(d.items, {"textbox"})[i].text>>]

NoFault == [phase |-> "none", at |-> 0, exc |-> "none"]

\* The steps inside the outer try only, and what each raises when it fails.
MandatoryFaults ==
    {[phase |-> "import",     at |-> 0, exc |-> "ImportError"],
     [phase |-> "open",       at |-> 0, exc |-> "PackageNotFoundError"],
     [phase |-> "paragraphs", at |-> 0, exc |-> "KeyError"],
     [phase |-> "tables",     at |-> 0, exc |-> "IndexError"],
     [phase |-> "sections",   at |-> 0, exc |-> "AttributeError"],
     [phase |-> "format",     at |-> 0, exc |-> "TypeError"]}

\* A failure of an optional step, after `at` of its fragments were read.
OptionalFaults(n) ==
    {[phase |-> "notes", at |-> k, exc |-> "AttributeError"] : k \in 0..n}
    \cup {[phase |-> "textboxes", at |-> k, exc |-> "ValueError"] : k \in 0..n}

FaultFits(s, f) ==
    CASE f.phase = "notes"     -> f.at <= Len(OfKind(s, {"footnote", "endnote"}))
      [] f.phase = "textboxes" -> f.at <= Len(OfKind(s, {"textbox"}))
      [] OTHER                 -> TRUE

\* The documents of at most n fragments with texts from Texts, failing as in faults.
DocsOver(Texts, n, faults) ==
    {d \in [items : ItemSeqs(Texts, n), fault : faults] : FaultFits(d.items, d.fault)}

\* ------------------------------------------------------ extract: the loops

\* f"[Footnote: {text}]", f"[Endnote: {text}]", f"[TextBox: {text}]"
Label(kind, text) ==
    CASE kind = "footnote" ->
            <<"[", "F", "o", "o", "t", "n", "o", "t", "e", ":", " ">> \o text \o <<"]">>
      [] kind = "endnote" ->
            <<"[", "E", "n", "d", "n", "o", "t", "e", ":", " ">> \o text \o <<"]">>
      [] kind = "textbox" ->
            <<"[", "T", "e", "x", "t", "B", "o", "x", ":", " ">> \o text \o <<"]">>
      [] OTHER -> text

SeenKeyLabelled(text, part) == part

\* processed_text.add(text): the key remembered for an emitted part
SeenKey(text, part) == text

\* if text and text not in processed_text: text_parts.append(part); processed_text.add(text)
Emit(fr, text, part) ==
    IF text # <<>> /\ text \notin fr.seen
    THEN [parts |-> Append(fr.parts, part), seen |-> fr.seen \cup {SeenKey(text, part)}]
    ELSE fr

\* for paragraph in <paragraphs>: text = paragraph.text.strip(); ...
RECURSIVE WalkParagraphs(_, _, _)
WalkParagraphs(paras, fr, kind) ==
    IF paras = <<>> THEN fr
    ELSE LET text == Strip(Head(paras))
         IN  WalkParagraphs(Tail(paras), Emit(fr, text, Label(kind, text)), kind)

\* for paragraph in cell.paragraphs: ... cell_paragraphs.append(text)
WalkCell(cell, seen) == WalkParagraphs(cell, [parts |-> <<>>, seen |-> seen], "cell")

\* for cell in row.cells: ... row_text.append(" ".join(cell_paragraphs))
RECURSIVE WalkRow(_, _)
WalkRow(cells, acc) ==
    IF cells = <<>> THEN acc
    ELSE Then(WalkCell(Head(cells), acc.seen),
              LAMBDA c :
                  WalkRow(Tail(cells),
                          [parts |-> IF c.parts # <<>>
                                     THEN Append(acc.parts, Join(c.parts, <<" ">>))
                                     ELSE acc.parts,
                           seen  |-> c.seen]))

\* for row in table.rows: ... table_texts.append(" | ".join(row_text))
RECURSIVE WalkTable(_, _)
WalkTable(rows, acc) ==
    IF rows = <<>> THEN acc
    ELSE Then(WalkRow(Head(rows), [parts |-> <<>>, seen |-> acc.seen]),
              LAMBDA r :
                  WalkTable(Tail(rows),
                            [parts |-> IF r.parts # <<>>
                                       THEN Append(acc.parts, Join(r.parts, <<" ", "|", " ">>))
                                       ELSE acc.parts,
                             seen  |-> r.seen]))

\* for table in doc.tables: ... text_parts.extend(table_texts)
RECURSIVE WalkTables(_, _)
WalkTables(tables, fr) ==
    IF tables = <<>> THEN fr
    ELSE Then(WalkTable(Head(tables), [parts |-> <<>>, seen |-> fr.seen]),
              LAMBDA t :
                  WalkTables(Tail(tables), [parts |-> fr.parts \o t.parts, seen |-> t.seen]))

\* for section in doc.sections: header paragraphs, then footer paragraphs
RECURSIVE WalkSections(_, _)
WalkSections(secs, fr) ==
    IF secs = <<>> THEN fr
    ELSE WalkSections(Tail(secs),
             WalkParagraphs(Head(secs).footer,
                            WalkParagraphs(Head(secs).header, fr, "header"),
                            "footer"))

\* The paragraphs of a sequence of notes (or the runs of text boxes), in order.
RECURSIVE Flatten(_, _)
Flatten(containers, kind) ==
    IF containers = <<>> THEN <<>>
    ELSE [i \in 1..Len(Head(containers)) |-> [kind |-> kind, text |-> Head(containers)[i]]]
         \o Flatten(Tail(containers), kind)

\* hasattr(doc, 'footnotes') / hasattr(doc, 'endnotes')
HasNotes(notes) == notes # <<>>

NoteFragments(d) ==
    (IF HasNotes(DocFootnotes(d)) THEN Flatten(DocFootnotes(d), "footnote") ELSE <<>>)
    \o (IF HasNotes(DocEndnotes(d)) THEN Flatten(DocEndnotes(d), "endnote") ELSE <<>>)

\* if para.tag.endswith('}t') and para.text: text = para.text.strip(); ...
RECURSIVE WalkLabelled(_, _)
WalkLabelled(frags, fr) ==
    IF frags = <<>> THEN fr
    ELSE LET text == Strip(Head(frags).text)
         IN  WalkLabelled(Tail(frags), Emit(fr, text, Label(Head(frags).kind, text)))

\* An optional step: its loop runs until the document's fault, if it has one there.
Attempt(frags, fr, fault, phase) ==
    IF fault.phase = phase
    THEN [fr  |-> WalkLabelled(SubSeq(frags, 1, fault.at), fr), exc |-> fault.exc]
    ELSE [fr  |-> WalkLabelled(frags, fr), exc |-> "none"]

SuppressNothing(attempt) == attempt

\* except Exception: pass
Suppress(attempt) == [attempt EXCEPT !.exc = "none"]

\* cleaned_parts = [self._clean_text(part) for part in text_parts if part.strip()]
CleanedParts(parts) ==
    LET kept == SelectSeq(parts, LAMBDA part : Strip(part) # <<>>)
    IN  [i \in 1..Len(kept) |-> _clean_text(kept[i])]

\* if text_parts: ... return result.strip();  return ""
FormatResult(parts) ==
    IF parts # <<>>
    THEN Then(Then(Then(CleanedParts(parts), LAMBDA cleaned : Join(cleaned, <<"\n">>)),
                   SentenceBreak),
              Strip)
    ELSE <<>>

Reraise(e) == [kind |-> "error", error |-> e, cause |-> e]

\* except Exception as e: raise ExtractionError(f"DOCX extraction failed: {e}")
ExceptHandler(e) == [kind |-> "error", error |-> "ExtractionError", cause |-> e]

Returned(text) == [kind |-> "text", text |-> text]

NoResult == [kind |-> "none"]

\* ------------------------------------------------------------- state

VARIABLES
    doc,             \* call -> the document at the call's file_path
    mode,            \* call -> "sync" (extract), "async" (extract_async), "off"
    pc,              \* call -> the step of extract the call is at
    text_parts,      \* call -> extract's local text_parts
    processed_text,  \* call -> extract's local processed_text
    result,          \* call -> what extract returned or raised
    thread,          \* call -> the thread extract runs on
    task,            \* call -> the state of the coroutine extract_async
    received,        \* call -> what the await in extract_async evaluated to
    overlap          \* another task of the loop ran while an extraction was under way

vars == <<doc, mode, pc, text_parts, processed_text, result, thread, task, received, overlap>>

Calls == 1..NCalls

Running == {"start", "paragraphs", "tables", "sections", "notes", "textboxes", "format"}

Finished == {"done", "raised"}

ProcessedTextShared(pt, c) == UNION {pt[k] : k \in DOMAIN pt}

\* processed_text = set(): a local of the call
ProcessedTextOf(pt, c) == pt[c]

Frame(c) == [parts |-> text_parts[c], seen |-> ProcessedTextOf(processed_text, c)]

Store(c, fr) ==
    /\ text_parts' = [text_parts EXCEPT ![c] = fr.parts]
    /\ processed_text' = [processed_text EXCEPT ![c] = fr.seen]

Raise(c, e) ==
    /\ pc' = [pc EXCEPT ![c] = "raised"]
    /\ result' = [result EXCEPT ![c] = ExceptHandler(e)]

Goto(c, step) ==
    /\ pc' = [pc EXCEPT ![c] = step]
    /\ UNCHANGED result

Environment == <<doc, mode, thread, task, received, overlap>>

\* ------------------------------------------------------ extract: the steps

\* from docx import Document; doc = Document(file_path); text_parts = []; processed_text = set()
Open(c) ==
    /\ pc[c] = "start"
    /\ IF doc[c].fault.phase \in {"import", "open"}
       THEN Raise(c, doc[c].fault.exc) /\ UNCHANGED <<text_parts, processed_text>>
       ELSE Goto(c, "paragraphs") /\ Store(c, [parts |-> <<>>, seen |-> {}])
    /\ UNCHANGED Environment

Paragraphs(c) ==
    /\ pc[c] = "paragraphs"
    /\ IF doc[c].fault.phase = "paragraphs"
       THEN Raise(c, doc[c].fault.exc) /\ UNCHANGED <<text_parts, processed_text>>
       ELSE Goto(c, "tables")
            /\ Store(c, WalkParagraphs(DocParagraphs(doc[c]), Frame(c), "paragraph"))
    /\ UNCHANGED Environment

Tables(c) ==
    /\ pc[c] = "tables"
    /\ IF doc[c].fault.phase = "tables"
       THEN Raise(c, doc[c].fault.exc) /\ UNCHANGED <<text_parts, processed_text>>
       ELSE Goto(c, "sections")
            /\ Store(c, Then(DocTables(doc[c]), LAMBDA tables : WalkTables(tables, Frame(c))))
    /\ UNCHANGED Environment

Sections(c) ==
    /\ pc[c] = "sections"
    /\ IF doc[c].fault.phase = "sections"
       THEN Raise(c, doc[c].fault.exc) /\ UNCHANGED <<text_parts, processed_text>>
       ELSE Goto(c, "notes") /\ Store(c, WalkSections(DocSections(doc[c]), Frame(c)))
    /\ UNCHANGED Environment

\* An optional step inside its own try: what it collected stays, what it raises
\* goes through its except clause and, if that lets it out, to the outer one.
Optional(c, frags, phase, next) ==
    LET a == Suppress(Attempt(frags, Frame(c), doc[c].fault, phase))
    IN  /\ Store(c, a.fr)
        /\ IF a.exc # "none" THEN Raise(c, a.exc) ELSE Goto(c, next)

Notes(c) ==
    /\ pc[c] = "notes"
    /\ Optional(c, NoteFragments(doc[c]), "notes", "textboxes")
    /\ UNCHANGED Environment

TextBoxes(c) ==
    /\ pc[c] = "textboxes"
    /\ Optional(c, Flatten(DocTextBoxes(doc[c]), "textbox"), "textboxes", "format")
    /\ UNCHANGED Environment

Format(c) ==
    /\ pc[c] = "format"
    /\ IF doc[c].fault.phase = "format"
       THEN Raise(c, doc[c].fault.exc)
       ELSE /\ pc' = [pc EXCEPT ![c] = "done"]
            /\ result' = [result EXCEPT ![c] = Returned(FormatResult(text_parts[c]))]
    /\ UNCHANGED <<text_parts, processed_text>>
    /\ UNCHANGED Environment

\* ------------------------------------------------------- extract_async

ExtractThreadLoop(m) == IF m = "async" THEN "loop" ELSE "caller"

\* asyncio.to_thread(self.extract, ...): extract runs on a worker thread;
\* a direct call of extract runs on its caller's thread.
ExtractThread(m) == IF m = "async" THEN "worker" ELSE "caller"

ToThreadWrapped(outcome) ==
    IF outcome.kind = "error"
    THEN [outcome EXCEPT !.error = "RuntimeError"]
    ELSE [outcome EXCEPT !.text = _clean_text(@)]

\* return await asyncio.to_thread(...): the worker's return value or exception, as it is
ToThread(outcome) == outcome

\* The event loop's thread is inside a blocking call.
LoopBusy == \E c \in Calls : thread[c] = "loop" /\ pc[c] \in Running

\* The coroutine runs to its await: the extraction is handed to a thread.
ExtractAsync(c) ==
    /\ mode[c] = "async"
    /\ task[c] = "created"
    /\ ~LoopBusy
    /\ task' = [task EXCEPT ![c] = "awaiting"]
    /\ thread' = [thread EXCEPT ![c] = ExtractThread(mode[c])]
    /\ pc' = [pc EXCEPT ![c] = "start"]
    /\ UNCHANGED <<doc, mode, text_parts, processed_text, result, received, overlap>>

\* The thread's future is done: the loop resumes the coroutine with its outcome.
Resume(c) ==
    /\ mode[c] = "async"
    /\ task[c] = "awaiting"
    /\ pc[c] \in Finished
    /\ ~LoopBusy
    /\ task' = [task EXCEPT ![c] = "finished"]
    /\ received' = [received EXCEPT ![c] = ToThread(result[c])]
    /\ UNCHANGED <<doc, mode, pc, text_parts, processed_text, result, thread, overlap>>

\* Another task of the same event loop takes a step.
OtherTask ==
    /\ ~LoopBusy
    /\ overlap' = (overlap \/ \E c \in Calls : mode[c] = "async" /\ pc[c] \in Running)
    /\ UNCHANGED <<doc, mode, pc, text_parts, processed_text, result, thread, task, received>>

\* ------------------------------------------------------ specifications

EmptyDoc == [items |-> <<>>, fault |-> NoFault]

StartOf(m) == IF m = "sync" THEN "start" ELSE "idle"

InitWith(docs, modes) ==
    /\ doc = docs
    /\ mode = modes
    /\ pc = [c \in Calls |-> StartOf(modes[c])]
    /\ text_parts = [c \in Calls |-> <<>>]
    /\ processed_text = [c \in Calls |-> {}]
    /\ result = [c \in Calls |-> NoResult]
    /\ thread = [c \in Calls |-> IF modes[c] = "sync" THEN ExtractThread("sync") ELSE "none"]
    /\ task = [c \in Calls |-> IF modes[c] = "async" THEN "created" ELSE "none"]
    /\ received = [c \in Calls |-> NoResult]
    /\ overlap = FALSE

\* One call of extract, the handler otherwise unused.
InitOne(docs) ==
    \E d \in docs :
        InitWith([c \in Calls |-> IF c = 1 THEN d ELSE EmptyDoc],
                 [c \in Calls |-> IF c = 1 THEN "sync" ELSE "off"])

Step(c) ==
    \/ Open(c)
    \/ Paragraphs(c)
    \/ Tables(c)
    \/ Sections(c)
    \/ Notes(c)
    \/ TextBoxes(c)
    \/ Format(c)

Next == \E c \in Calls : Step(c)

\* Texts that the cleaning and the sentence breaks change.
TextsRich == {<<"a">>, <<"b">>, <<".", ".">>, <<"a", ".", ".">>, <<"a", ".", " ", "B">>}

\* extract on documents whose texts need cleaning
Init == InitOne(DocsOver(TextsRich, MaxItems, {NoFault}))

Spec == Init /\ [][Next]_vars

\* Texts equal and unequal after strip(), and a blank one.
TextsDedup == {<<"a">>, <<" ", "a">>, <<"b">>, <<" ">>}

\* extract on documents with repeated texts
InitDedup == InitOne(DocsOver(TextsDedup, MaxItems, {NoFault}))

SpecDedup == InitDedup /\ [][Next]_vars

TextsFault == {<<"a">>, <<"b">>}

\* extract on documents that fail at any step
InitFault ==
    InitOne(DocsOver(TextsFault, MaxItems,
                     {NoFault} \cup MandatoryFaults \cup OptionalFaults(MaxItems)))

SpecFault == InitFault /\ [][Next]_vars

Item(kind, text) ==
    [kind |-> kind, brk |-> IF kind = "cell" THEN "table" ELSE "none", text |-> text]

\* The files of the concurrent calls: a paragraph; a paragraph, a repeated cell
\* and a text box; a text box that fails to parse; a file that does not open.
DocsAsync ==
    {[items |-> <<Item("paragraph", <<"a">>)>>, fault |-> NoFault],
     [items |-> <<Item("paragraph", <<"b">>), Item("cell", <<"a">>),
                  Item("textbox", <<"b">>)>>, fault |-> NoFault],
     [items |-> <<Item("textbox", <<"a">>)>>,
      fault |-> [phase |-> "textboxes", at |-> 0, exc |-> "ValueError"]],
     [items |-> <<>>,
      fault |-> [phase |-> "open", at |-> 0, exc |-> "PackageNotFoundError"]]}

\* Calls of extract and extract_async on one handler instance, in any interleaving.
InitAsync ==
    \E docs \in [Calls -> DocsAsync], modes \in [Calls -> {"sync", "async"}] :
        InitWith(docs, modes)

NextAsync ==
    \/ \E c \in Calls : Step(c)
    \/ \E c \in Calls : ExtractAsync(c)
    \/ \E c \in Calls : Resume(c)
    \/ OtherTask

SpecAsync == InitAsync /\ [][NextAsync]_vars

\* The files of the calls of extract_async: a table row of two cells; a file
\* whose notes fail to parse; a file that does not open.
DocsLoop ==
    {[items |-> <<Item("cell", <<"a">>),
                  [kind |-> "cell", brk |-> "cell", text |-> <<"b">>]>>, fault |-> NoFault],
     [items |-> <<Item("header", <<"a">>)>>,
      fault |-> [phase |-> "notes", at |-> 0, exc |-> "AttributeError"]],
     [items |-> <<>>,
      fault |-> [phase |-> "open", at |-> 0, exc |-> "PackageNotFoundError"]]}

\* Calls of extract_async only.  The event loop runs every ready callback and
\* the operating system runs every worker thread.
InitAllAsync ==
    \E docs \in [Calls -> DocsLoop] : InitWith(docs, [c \in Calls |-> "async"])

FairSpecAsync ==
    /\ InitAllAsync
    /\ [][NextAsync]_vars
    /\ \A c \in Calls : WF_vars(Step(c)) /\ WF_vars(ExtractAsync(c)) /\ WF_vars(Resume(c))

\* ------------------------------------------- what the claims speak of

\* The fragments a call reaches: all of them, but for an optional step that
\* fails only those before the failure.
Visited(d) ==
    LET before(r) == SelectSeq(d.items, LAMBDA it : Rank(it.kind) < r)
        notes     == OfKind(d.items, {"footnote", "endnote"})
        boxes     == OfKind(d.items, {"textbox"})
    IN  CASE d.fault.phase = "notes"     -> before(4) \o SubSeq(notes, 1, d.fault.at) \o boxes
          [] d.fault.phase = "textboxes" -> before(6) \o SubSeq(boxes, 1, d.fault.at)
          [] OTHER                       -> d.items

\* Fragment i is not blank and no earlier fragment has its stripped text.
FirstOccurrence(V, i) ==
    /\ Strip(V[i].text) # <<>>
    /\ \A j \in 1..(i - 1) : Strip(V[j].text) # Strip(V[i].text)

Indices(n) == [i \in 1..n |-> i]

FirstIn(V, P(_)) == SelectSeq(Indices(Len(V)), LAMBDA i : FirstOccurrence(V, i) /\ P(i))

\* The number of the cell, and of the row, that cell fragment i lies in.
CellOf(V, i) == Cardinality({j \in 1..i : V[j].kind = "cell" /\ V[j].brk # "para"})

RowOf(V, i) == Cardinality({j \in 1..i : V[j].kind = "cell" /\ V[j].brk \in {"table", "row"}})

ExpectedSingles(V, kinds) ==
    LET ix == FirstIn(V, LAMBDA i : V[i].kind \in kinds)
    IN  [k \in 1..Len(ix) |-> Label(V[ix[k]].kind, Strip(V[ix[k]].text))]

ExpectedCell(V, c) ==
    LET ix == FirstIn(V, LAMBDA i : V[i].kind = "cell" /\ CellOf(V, i) = c)
    IN  Join([k \in 1..Len(ix) |-> Strip(V[ix[k]].text)], <<" ">>)

ExpectedRow(V, r) ==
    LET cells == SelectSeq(Indices(Len(V)), LAMBDA c :
                     FirstIn(V, LAMBDA i : V[i].kind = "cell" /\ RowOf(V, i) = r
                                            /\ CellOf(V, i) = c) # <<>>)
    IN  Join([k \in 1..Len(cells) |-> ExpectedCell(V, cells[k])], <<" ", "|", " ">>)

ExpectedRows(V) ==
    LET rows == SelectSeq(Indices(Len(V)), LAMBDA r :
                    FirstIn(V, LAMBDA i : V[i].kind = "cell" /\ RowOf(V, i) = r) # <<>>)
    IN  [k \in 1..Len(rows) |-> ExpectedRow(V, rows[k])]

\* The parts of a document by first occurrence: a fragment gives its text to a
\* part exactly if it is a first occurrence among the visited fragments.
ExpectedParts(d) ==
    LET V == Visited(d)
    IN  ExpectedSingles(V, {"paragraph"})
        \o ExpectedRows(V)
        \o ExpectedSingles(V, {"header", "footer", "footnote", "endnote", "textbox"})

ExpectedSeen(d) ==
    LET V == Visited(d)
    IN  {Strip(V[i].text) : i \in {j \in 1..Len(V) : Strip(V[j].text) # <<>>}}

MandatoryPhases == {"import", "open", "paragraphs", "tables", "sections", "format"}

OptionalPhases == {"notes", "textboxes"}

\* What a call on document d gives when it is the only call ever made.
AloneResult(d) ==
    IF d.fault.phase \in MandatoryPhases
    THEN [kind |-> "error", error |-> "ExtractionError", cause |-> d.fault.exc]
    ELSE [kind |-> "text", text |-> FormatResult(ExpectedParts(d))]

IsPrefix(s, t) == Len(s) <= Len(t) /\ SubSeq(t, 1, Len(s)) = s

InSeq(x, s) == \E i \in 1..Len(s) : s[i] = x

\* The parts collected before the optional step that fails.
PartsBefore(d) ==
    ExpectedParts([items |-> SelectSeq(d.items, LAMBDA it :
                                 Rank(it.kind) < (IF d.fault.phase = "notes" THEN 4 ELSE 6)),
                   fault |-> NoFault])

\* A table row as the cells' own texts: each cell's non-blank paragraphs joined
\* by a space, the cells that hold text joined by " | ".
RowAsWritten(row) ==
    LET cellText(cell) ==
            Join(SelectSeq([i \in 1..Len(cell) |-> Strip(cell[i])], LAMBDA t : t # <<>>),
                 <<" ">>)
        texts == SelectSeq([i \in 1..Len(row) |-> cellText(row[i])], LAMBDA t : t # <<>>)
    IN  Join(texts, <<" ", "|", " ">>)

RECURSIVE AllRows(_)
AllRows(tables) == IF tables = <<>> THEN <<>> ELSE Head(tables) \o AllRows(Tail(tables))

RowsAsWritten(d) ==
    LET rows == AllRows(DocTables(d))
    IN  SelectSeq([i \in 1..Len(rows) |-> RowAsWritten(rows[i])], LAMBDA t : t # <<>>)

HasEmptyLine(text) == \E i \in 1..(Len(text) - 1) : text[i] = "\n" /\ text[i + 1] = "\n"

\* ------------------------------------------------------------ claims

\* C1: whatever fails inside extract (the import, opening the document, a
\* mandatory loop, the final formatting), the call ends by raising
\* ExtractionError with the failure as its cause: no other error kind leaves
\* extract, and a call that fails so returns no text.
C1_OnlyExtractionError ==
    \A c \in Calls :
        /\ result[c].kind = "error" => result[c].error = "ExtractionError"
        /\ pc[c] = "raised" => result[c].kind = "error"
        /\ (pc[c] \in Finished /\ doc[c].fault.phase \in MandatoryPhases) =>
              /\ pc[c] = "raised"
              /\ result[c] = [kind |-> "error", error |-> "ExtractionError",
                              cause |-> doc[c].fault.exc]

\* A table step failed after paragraphs were collected: the call raised.
C1_Witness ==
    \E c \in Calls :
        /\ pc[c] = "raised"
        /\ doc[c].fault.phase = "tables"
        /\ text_parts[c] # <<>>
        /\ result[c].kind = "error"

\* C2: when the footnote/endnote step or the text-box step fails, extract
\* still returns: the text is the formatted parts, which start with every part
\* collected before the failing step and, after a failing note step, hold the
\* part of every text box that is a first occurrence.
C2_OptionalFailureIsSilent ==
    \A c \in Calls :
        (pc[c] \in Finished /\ doc[c].fault.phase \in OptionalPhases) =>
            /\ pc[c] = "done"
            /\ result[c] = Returned(FormatResult(text_parts[c]))
            /\ text_parts[c] = ExpectedParts(doc[c])
            /\ IsPrefix(PartsBefore(doc[c]), text_parts[c])
            /\ doc[c].fault.phase = "notes" =>
                  LET V == Visited(doc[c])
                  IN  \A i \in 1..Len(V) :
                          (V[i].kind = "textbox" /\ FirstOccurrence(V, i)) =>
                              InSeq(Label("textbox", Strip(V[i].text)), text_parts[c])

\* The note step failed after it had read a note; a paragraph from before it
\* and a text box from after it are both in the returned text.
C2_Witness ==
    \E c \in Calls :
        /\ pc[c] = "done"
        /\ doc[c].fault.phase = "notes"
        /\ doc[c].fault.at < Len(OfKind(doc[c].items, {"footnote", "endnote"}))
        /\ InSeq(<<"a">>, text_parts[c])
        /\ InSeq(Label("textbox", <<"b">>), text_parts[c])
        /\ result[c].kind = "text"

\* C3: extract_async gives its awaiter exactly what extract gives its caller
\* on the same file: the same text, or the same ExtractionError.
C3_AsyncEqualsSync ==
    \A c \in Calls, k \in Calls :
        (/\ mode[c] = "sync" /\ pc[c] \in Finished
         /\ mode[k] = "async" /\ task[k] = "finished"
         /\ doc[c] = doc[k]) => received[k] = result[c]

\* A sync and an async call on one file both ended with text; two others both
\* ended with the error.
C3_Witness ==
    \E c \in Calls, k \in Calls :
        /\ mode[c] = "sync" /\ pc[c] = "done"
        /\ mode[k] = "async" /\ task[k] = "finished"
        /\ doc[c] = doc[k]
        /\ received[k].kind = "text"
        /\ received[k].text # <<>>

\* C4: every call on the shared handler instance ends with the result it has
\* as the only call ever made, whatever the other calls do and in whatever
\* interleaving.
C4_CallsAreIndependent ==
    \A c \in Calls :
        /\ pc[c] \in Finished => result[c] = AloneResult(doc[c])
        /\ task[c] = "finished" => received[c] = AloneResult(doc[c])

\* One call has returned text while another, on the same file and of the
\* other kind, is under way and has recorded one of the same texts.
C4_Witness ==
    \E c \in Calls, k \in Calls :
        /\ c # k
        /\ mode[c] # mode[k]
        /\ doc[c] = doc[k]
        /\ pc[c] = "done" /\ result[c].text # <<>>
        /\ pc[k] \in Running
        /\ processed_text[c] \cap processed_text[k] # {}

\* C5: while an extraction started by extract_async is under way it runs on a
\* worker thread, its coroutine is suspended at the await, and the event loop's
\* thread is free, so that another task can step; and a suspended coroutine is
\* eventually resumed with what the worker returned or raised.
C5_NonBlocking ==
    /\ [](\A c \in Calls :
            (mode[c] = "async" /\ pc[c] \in Running) =>
                /\ thread[c] = "worker"
                /\ task[c] = "awaiting"
                /\ ~LoopBusy
                /\ ENABLED OtherTask)
    /\ \A c \in Calls :
          (task[c] = "awaiting") ~> (task[c] = "finished" /\ received[c] = result[c])

\* Another task stepped during an extraction, whose coroutine has since been
\* resumed with text.
C5_Witness ==
    /\ overlap
    /\ \E c \in Calls :
          /\ task[c] = "finished"
          /\ thread[c] = "worker"
          /\ received[c].kind = "text"

\* C6: no two of the parts joined into the returned text are equal.
C6_NoRepeatedParts ==
    \A c \in Calls :
        pc[c] = "done" =>
            LET cleaned == CleanedParts(text_parts[c])
            IN  \A i \in 1..Len(cleaned), j \in 1..Len(cleaned) :
                    i # j => cleaned[i] # cleaned[j]

\* C7: the table step adds one part per row that holds text, the texts of the
\* row's cells in column order joined by " | ".
C7_RowsKeepEveryCell ==
    [][\A c \in Calls :
          (pc[c] = "tables" /\ pc'[c] = "sections") =>
              text_parts'[c] = text_parts[c] \o RowsAsWritten(doc[c])]_vars

\* C8: the fragments are visited in the order paragraphs, tables, headers and
\* footers by section, footnotes, endnotes, text boxes; a fragment is emitted
\* exactly if it is not blank and no earlier fragment of any kind has the same
\* stripped text, and what is remembered of an emitted fragment is its
\* stripped text without label.
C8_FirstOccurrenceWins ==
    \A c \in Calls :
        pc[c] = "done" =>
            /\ text_parts[c] = ExpectedParts(doc[c])
            /\ processed_text[c] = ExpectedSeen(doc[c])

\* A footnote was dropped for a paragraph of the same stripped text, and a
\* text box of another text was emitted with its label.
C8_Witness ==
    \E c \in Calls :
        /\ pc[c] = "done"
        /\ LET its == doc[c].items
           IN  \E i \in 1..Len(its), j \in 1..Len(its) :
                  /\ its[i].kind = "paragraph" /\ its[i].text = <<" ", "a">>
                  /\ its[j].kind = "footnote" /\ its[j].text = <<"a">>
        /\ text_parts[c] = << <<"a">>, Label("textbox", <<"b">>) >>

\* C9: every part joined into the returned text is non-empty after cleaning;
\* the returned text has no empty line and no leading or trailing whitespace,
\* and is empty when no text was found.
C9_NoEmptyContent ==
    \A c \in Calls :
        pc[c] = "done" =>
            LET cleaned == CleanedParts(text_parts[c])
            IN  /\ \A i \in 1..Len(cleaned) : cleaned[i] # <<>>
                /\ ~HasEmptyLine(result[c].text)
                /\ result[c].text = Strip(result[c].text)
                /\ text_parts[c] = <<>> => result[c].text = <<>>

====
